---- MODULE Spec2Model ----
(***************************************************************************)
(* Translation Orchestration Engine of agentic-ai-translation-company.     *)
(*                                                                         *)
(* The model follows one TranslationApp.process_translation call on a      *)
(* freshly constructed TranslationPipeline: process_file, set_terminology, *)
(* then TranslationPipeline.translate, cut at every model (HTTP) call,     *)
(* since a call is where the session can fail.  Python strings that the    *)
(* code inspects (profile names, style labels) are sequences of one-       *)
(* character strings, so that lower() and the `in` substring test are      *)
(* computed; texts produced by the model gateway are sequences of tokens,  *)
(* the token "\n" being the newline that "\n".join inserts.  A Python dict *)
(* is a function on its key set; a list is a sequence.  Wall-clock time    *)
(* (total_time) and the source/target language names, which only flow into *)
(* prompts, are left out.  The gateway is the default provider (xai); a    *)
(* call either returns a reply or raises.                                  *)
(***************************************************************************)
EXTENDS Integers, Sequences, FiniteSets, TLC

(***************************************************************************)
(* Bounds of the model.                                                    *)
(***************************************************************************)
\* the longest chunk list process_file hands to translate
MaxChunks == 2

(***************************************************************************)
(* String literals of the source, as character sequences.                  *)
(***************************************************************************)
Str_Legal == <<"L", "e", "g", "a", "l">>
Str_Literary == <<"L", "i", "t", "e", "r", "a", "r", "y">>
Str_Business == <<"B", "u", "s", "i", "n", "e", "s", "s">>
Str_Technical == <<"T", "e", "c", "h", "n", "i", "c", "a", "l">>
Str_Medical == <<"M", "e", "d", "i", "c", "a", "l">>
Str_News == <<"N", "e", "w", "s">>
Str_Academic == <<"A", "c", "a", "d", "e", "m", "i", "c">>
Str_Marketing == <<"M", "a", "r", "k", "e", "t", "i", "n", "g">>
Str_MasterTranslator == <<"M", "a", "s", "t", "e", "r", " ", "T", "r", "a", "n", "s", "l", "a", "t", "o", "r">>
Str_LegalTranslator == <<"L", "e", "g", "a", "l", " ", "T", "r", "a", "n", "s", "l", "a", "t", "o", "r">>
Str_LiteraryTranslator == <<"L", "i", "t", "e", "r", "a", "r", "y", " ", "T", "r", "a", "n", "s", "l", "a", "t", "o", "r">>
Str_BusinessTranslator == <<"B", "u", "s", "i", "n", "e", "s", "s", " ", "T", "r", "a", "n", "s", "l", "a", "t", "o", "r">>
Str_TechnicalTranslator == <<"T", "e", "c", "h", "n", "i", "c", "a", "l", " ", "T", "r", "a", "n", "s", "l", "a", "t", "o", "r">>
Str_MedicalTranslator == <<"M", "e", "d", "i", "c", "a", "l", " ", "T", "r", "a", "n", "s", "l", "a", "t", "o", "r">>
Str_NewsTranslator == <<"N", "e", "w", "s", " ", "T", "r", "a", "n", "s", "l", "a", "t", "o", "r">>
Str_AcademicTranslator == <<"A", "c", "a", "d", "e", "m", "i", "c", " ", "T", "r", "a", "n", "s", "l", "a", "t", "o", "r">>
Str_MarketingTranslator == <<"M", "a", "r", "k", "e", "t", "i", "n", "g", " ", "T", "r", "a", "n", "s", "l", "a", "t", "o", "r">>
Str_GeneralTranslator == <<"G", "e", "n", "e", "r", "a", "l", " ", "T", "r", "a", "n", "s", "l", "a", "t", "o", "r">>
Str_HelpMeToDecide == <<"H", "e", "l", "p", " ", "m", "e", " ", "t", "o", " ", "d", "e", "c", "i", "d", "e">>
Str_literary == <<"l", "i", "t", "e", "r", "a", "r", "y">>
Str_legal == <<"l", "e", "g", "a", "l">>
Str_master_translator == <<"m", "a", "s", "t", "e", "r", " ", "t", "r", "a", "n", "s", "l", "a", "t", "o", "r">>
Str_LITERARY_expert == <<"L", "I", "T", "E", "R", "A", "R", "Y", " ", "e", "x", "p", "e", "r", "t">>
Str_Poetry == <<"P", "o", "e", "t", "r", "y">>
Str_Leg == <<"L", "e", "g">>
Str_LEGAL == <<"L", "E", "G", "A", "L">>
Str_Master == <<"M", "a", "s", "t", "e", "r">>
Str_Marketing_news == <<"M", "a", "r", "k", "e", "t", "i", "n", "g", " ", "n", "e", "w", "s">>
Str_MASTER_TRANSLATOR_lead == <<"M", "A", "S", "T", "E", "R", " ", "T", "R", "A", "N", "S", "L", "A", "T", "O", "R", " ", "l", "e", "a", "d">>
Str_legal_and_literary == <<"l", "e", "g", "a", "l", " ", "a", "n", "d", " ", "l", "i", "t", "e", "r", "a", "r", "y">>
UpperCase == <<"A", "B", "C", "D", "E", "F", "G", "H", "I", "J", "K", "L", "M", "N", "O", "P", "Q", "R", "S", "T", "U", "V", "W", "X", "Y", "Z">>
LowerCase == <<"a", "b", "c", "d", "e", "f", "g", "h", "i", "j", "k", "l", "m", "n", "o", "p", "q", "r", "s", "t", "u", "v", "w", "x", "y", "z">>

(***************************************************************************)
(* Python values and built-ins.                                            *)
(***************************************************************************)
\* Python's None, distinct from every character sequence and from ""
NoneVal == <<"<None>">>

\* the empty dict {}
EmptyDict == [k \in {} |-> NoneVal]

\* truth value of a string-or-None or list value: None, "" and [] are false
Truthy(v) == v # NoneVal /\ v # <<>>

\* d[k] = v on a dict
DictSet(d, k, v) == [x \in (DOMAIN d) \cup {k} |-> IF x = k THEN v ELSE d[x]]

\* d.get(k): the value, or None when the key is absent
DictGet(d, k) == IF k \in DOMAIN d THEN d[k] ELSE NoneVal

\* one character of str.lower()
LowerChar(c) ==
    IF \E k \in 1..Len(UpperCase) : UpperCase[k] = c
    THEN LowerCase[CHOOSE k \in 1..Len(UpperCase) : UpperCase[k] = c]
    ELSE c

\* str.lower()
Lower(s) == [k \in 1..Len(s) |-> LowerChar(s[k])]

\* Python's `sub in s` on strings
Contains(sub, s) ==
    \E k \in 0..(Len(s) - Len(sub)) : SubSeq(s, k + 1, k + Len(sub)) = sub

\* str.find(tok): 0-based index of the first occurrence, -1 when absent
Find(s, tok) ==
    IF \E k \in 1..Len(s) : s[k] = tok
    THEN (CHOOSE k \in 1..Len(s) : s[k] = tok /\ \A j \in 1..(k - 1) : s[j] # tok) - 1
    ELSE -1

\* str.rfind(tok): 0-based index of the last occurrence, -1 when absent
RFind(s, tok) ==
    IF \E k \in 1..Len(s) : s[k] = tok
    THEN (CHOOSE k \in 1..Len(s) : s[k] = tok /\ \A j \in (k + 1)..Len(s) : s[j] # tok) - 1
    ELSE -1

\* the slice s[a:b] for 0 <= a, 0 <= b
Slice(s, a, b) == SubSeq(s, a + 1, IF b > Len(s) THEN Len(s) ELSE b)

(***************************************************************************)
(* "\n".join(translated_chunks)                                            *)
(***************************************************************************)
Newline == <<"\n">>

RECURSIVE JoinFrom(_, _)
JoinFrom(parts, k) ==
    IF k > Len(parts) THEN <<>>
    ELSE IF k = Len(parts) THEN parts[k]
    ELSE parts[k] \o Newline \o JoinFrom(parts, k + 1)

\* variant: the chunks are concatenated without the separator
RECURSIVE join_without_separator(_)
join_without_separator(parts) ==
    IF parts = <<>> THEN <<>> ELSE Head(parts) \o join_without_separator(Tail(parts))

Join(parts) == JoinFrom(parts, 1)

(***************************************************************************)
(* ManagerAgent: the registry of profiles and the parsing of the reply.    *)
(***************************************************************************)
\* the dict literal of analyze_brief, in insertion order: <<key, value>>
available_translators ==
    << <<Str_Legal, Str_LegalTranslator>>,
       <<Str_Literary, Str_LiteraryTranslator>>,
       <<Str_Business, Str_BusinessTranslator>>,
       <<Str_Technical, Str_TechnicalTranslator>>,
       <<Str_Medical, Str_MedicalTranslator>>,
       <<Str_News, Str_NewsTranslator>>,
       <<Str_Academic, Str_AcademicTranslator>>,
       <<Str_Marketing, Str_MarketingTranslator>>,
       <<Str_MasterTranslator, Str_MasterTranslator>> >>

\* variant: the test without the two lower() calls
type_matches_case_sensitive(type_name, translator) == Contains(type_name, translator)

\* the test of the inner loop: type_name.lower() in translator.lower()
type_matches(type_name, translator) == Contains(Lower(type_name), Lower(translator))

\* the inner loop over available_translators.items(), with its break and
\* the Master Translator fallback
RECURSIVE map_translator_from(_, _)
map_translator_from(translator, k) ==
    IF k > Len(available_translators) THEN Str_MasterTranslator
    ELSE IF type_matches(available_translators[k][1], translator)
         THEN available_translators[k][2]
         ELSE map_translator_from(translator, k + 1)

\* variant: the last entry whose key matches wins
RECURSIVE map_translator_from_last(_, _)
map_translator_from_last(translator, k) ==
    IF k < 1 THEN Str_MasterTranslator
    ELSE IF type_matches(available_translators[k][1], translator)
         THEN available_translators[k][2]
         ELSE map_translator_from_last(translator, k - 1)

map_translator_last_match(translator) ==
    map_translator_from_last(translator, Len(available_translators))

map_translator(translator) == map_translator_from(translator, 1)

\* variant: a name that matches no key is left out
mapped_translators_matches_only(selected) ==
    LET matches(t) == \E k \in 1..Len(available_translators) :
                         type_matches(available_translators[k][1], t)
        matched == SelectSeq(selected, matches)
    IN  [j \in 1..Len(matched) |-> map_translator(matched[j])]

\* the outer loop building mapped_translators
mapped_translators(selected) ==
    [j \in 1..Len(selected) |-> map_translator(selected[j])]

\* the note analyze_brief appends to the reasoning
MappingNote == "\nNote: Some requested translators were mapped to available specialists or the Master Translator."

\* The manager's reply is a token sequence `shape`: "{" and "}" are braces,
\* "txt" is text that is no JSON, and a key name stands for a well-formed
\* member `"key": value` whose value is vals[key].
JsonKeys == {"selected_translators", "style_guidelines", "quality_requirements",
             "reasoning", "detected_style"}

\* json.loads on a slice of the reply: an object when the slice is one
\* brace pair around well-formed members, a decode error otherwise
json_loads(json_str, vals) ==
    IF /\ Len(json_str) >= 2
       /\ json_str[1] = "{"
       /\ json_str[Len(json_str)] = "}"
       /\ \A k \in 2..(Len(json_str) - 1) : json_str[k] \in JsonKeys
    THEN [ok |-> TRUE,
          value |-> [key \in {json_str[k] : k \in 2..(Len(json_str) - 1)} |-> vals[key]]]
    ELSE [ok |-> FALSE, value |-> EmptyDict]

\* the dict _parse_response returns from its except branch
default_analysis ==
    [selected_translators |-> <<Str_GeneralTranslator>>,
     style_guidelines |-> <<"Maintain professional tone", "Ensure accuracy">>,
     quality_requirements |-> <<"High accuracy", "Natural flow">>,
     reasoning |-> <<"Using default settings due to parsing error">>,
     detected_style |-> NoneVal]

\* variant: every field translate reads is filled from the default dict
fill_required_every_field(parsed) ==
    [key \in JsonKeys |-> IF key \in DOMAIN parsed THEN parsed[key]
                          ELSE default_analysis[key]]

\* the two setdefault-like assignments of the try branch
fill_required(parsed) ==
    LET p1 == IF "reasoning" \in DOMAIN parsed THEN parsed
              ELSE DictSet(parsed, "reasoning", <<"No specific reasoning provided">>)
    IN  IF "detected_style" \in DOMAIN p1 THEN p1
        ELSE DictSet(p1, "detected_style", NoneVal)

\* variant: only a reply without braces gets the default; a decode error
\* yields an empty analysis
parse_response_default_without_braces_only(response) ==
    LET start_idx == Find(response.shape, "{")
        end_idx == RFind(response.shape, "}") + 1
        loaded == json_loads(Slice(response.shape, start_idx, end_idx), response.vals)
    IN  IF start_idx = -1 \/ end_idx = 0 THEN default_analysis
        ELSE IF ~loaded.ok THEN EmptyDict
        ELSE fill_required(loaded.value)

_parse_response(response) ==
    LET start_idx == Find(response.shape, "{")
        end_idx == RFind(response.shape, "}") + 1
        loaded == json_loads(Slice(response.shape, start_idx, end_idx), response.vals)
    IN  IF start_idx = -1 \/ end_idx = 0 THEN default_analysis
        ELSE IF ~loaded.ok THEN default_analysis
        ELSE fill_required(loaded.value)

\* analyze_brief after the call: parse, then map the selected translators
analyze_response(response) ==
    LET analysis0 == _parse_response(response)
    IN  IF "selected_translators" \in DOMAIN analysis0
        THEN LET a1 == DictSet(analysis0, "selected_translators",
                               mapped_translators(analysis0["selected_translators"]))
             IN  IF "reasoning" \in DOMAIN a1
                 THEN DictSet(a1, "reasoning", Append(a1["reasoning"], MappingNote))
                 ELSE a1
        ELSE analysis0

\* the branch of analyze_brief that picks the prompt
manager_prompt(ttype, br, source_text) ==
    IF ttype = Str_HelpMeToDecide \/ (br = "" /\ source_text # <<>>)
    THEN [mode |-> "detect", translation_type |-> <<>>, brief |-> "",
          source_text |-> source_text]
    ELSE [mode |-> "brief", translation_type |-> ttype, brief |-> br,
          source_text |-> <<>>]

(***************************************************************************)
(* FileHandler and TerminologyHandler, as far as process_translation uses  *)
(* them before translate is entered.                                       *)
(***************************************************************************)
\* the keys of FileHandler.supported_extensions
supported_extensions == {".pdf", ".docx", ".pptx", ".json", ".html", ".txt", ".md"}

\* the extensions load_terminology dispatches on
terminology_extensions == {"csv", "json", "xlsx", "xls", "txt"}

\* variant: validate_file checks existence and size only
validate_file_any_type(file) == TRUE

\* validate_file passes: file_ext in self.supported_extensions
validate_file(file) == file.ext \in supported_extensions

\* load_terminology reaches a loader and not its final else
terminology_format_supported(terminology_file) ==
    terminology_file.ext \in terminology_extensions

\* inserting <<source, target>> pairs into a dict in order, later pairs winning
RECURSIVE insert_pairs(_, _, _)
insert_pairs(d, pairs, k) ==
    IF k > Len(pairs) THEN d
    ELSE insert_pairs(DictSet(d, pairs[k][1], pairs[k][2]), pairs, k + 1)

\* variant: the TXT loader starts from an empty dict like the others
load_terminology_always_replacing(d, terminology_file) ==
    insert_pairs(EmptyDict, terminology_file.pairs, 1)

\* load_terminology on a supported format: the tabular and JSON loaders
\* assign a new dict, the TXT loader writes into the existing one
load_terminology(d, terminology_file) ==
    IF terminology_file.ext = "txt"
    THEN insert_pairs(d, terminology_file.pairs, 1)
    ELSE insert_pairs(EmptyDict, terminology_file.pairs, 1)

(***************************************************************************)
(* Inputs: the arguments of process_translation and the replies of the     *)
(* model gateway.                                                          *)
(***************************************************************************)
\* the chunks of the longest document; a document is a prefix of it
SourceChunks == <<<<"alpha">>, <<"beta">>, <<"gamma">>, <<"delta">>>>

\* uploaded documents: text files of 0..MaxChunks chunks and one file of an
\* unsupported type
Files ==
    {[ext |-> ".txt", chunks |-> SubSeq(SourceChunks, 1, n)] : n \in 0..MaxChunks}
    \cup {[ext |-> ".exe", chunks |-> <<>>]}

\* the value of AI_API_KEY in a configured environment
ApiKey == <<"s", "k", "-", "1">>

\* no document was uploaded yet
NoUpload == [ext |-> "<None>", chunks |-> <<>>]

\* terminology_file = None
NoFile == [ext |-> "<None>", pairs |-> <<>>]

\* the optional glossary upload
TerminologyFiles ==
    {NoFile,
     [ext |-> "json", pairs |-> << <<"Acme", "Acme-FR">>, <<"invoice", "facture">> >>],
     [ext |-> "txt", pairs |-> << <<"Acme", "Acme-FR">>, <<"invoice", "facture">> >>],
     [ext |-> "doc", pairs |-> << <<"Acme", "Acme-FR">> >>]}

\* values of the translation type dropdown used here
TranslationTypes == {Str_HelpMeToDecide, Str_Legal, Str_Business}

\* the manager brief: empty or not
Briefs == {"", "formal register, keep clause numbering"}

\* a chat completion that came back: its message content and its usage block
ModelReplies ==
    {[content |-> <<"x">>, usage |-> [total_tokens |-> 3]],
     [content |-> <<"y", "\n", "z">>, usage |-> EmptyDict]}

\* what a call that raised leaves in the log
NoReply == [content |-> <<>>, usage |-> EmptyDict]

\* the member values of a manager reply
ManagerVals(sel, sg, qr, det) ==
    [selected_translators |-> sel, style_guidelines |-> sg,
     quality_requirements |-> qr, reasoning |-> <<"because">>,
     detected_style |-> det]

\* replies to the manager's call: well-formed objects, an object lacking a
\* field, and contents that hold no JSON object
ManagerResponses ==
    {[shape |-> <<"txt", "{", "selected_translators", "style_guidelines",
                  "quality_requirements", "reasoning", "}">>,
      vals |-> ManagerVals(<<Str_Legal>>, <<"formal">>, <<"exact terms">>, NoneVal),
      usage |-> [total_tokens |-> 5]],
     [shape |-> <<"{", "detected_style", "selected_translators", "style_guidelines",
                  "quality_requirements", "reasoning", "}", "txt">>,
      vals |-> ManagerVals(<<Str_LITERARY_expert, Str_Poetry>>, <<"lyrical">>,
                           <<"keep rhythm">>, Str_Literary),
      usage |-> [total_tokens |-> 5]],
     [shape |-> <<"{", "detected_style", "selected_translators", "style_guidelines",
                  "quality_requirements", "}">>,
      vals |-> ManagerVals(<<Str_Leg, Str_legal_and_literary>>, <<>>, <<>>, Str_Legal),
      usage |-> EmptyDict],
     [shape |-> <<"{", "detected_style", "selected_translators", "style_guidelines",
                  "quality_requirements", "reasoning", "}">>,
      vals |-> ManagerVals(<<Str_Poetry>>, <<"lyrical">>, <<>>, Str_Poetry),
      usage |-> [total_tokens |-> 5]],
     [shape |-> <<"{", "style_guidelines", "quality_requirements", "reasoning", "}">>,
      vals |-> ManagerVals(<<Str_Legal>>, <<"formal">>, <<"exact terms">>, NoneVal),
      usage |-> [total_tokens |-> 5]],
     [shape |-> <<"txt", "{", "detected_style", "selected_translators",
                  "style_guidelines", "}">>,
      vals |-> ManagerVals(<<Str_Legal>>, <<"formal">>, <<"exact terms">>, Str_Legal),
      usage |-> [total_tokens |-> 5]],
     [shape |-> <<"{", "selected_translators", "quality_requirements", "}">>,
      vals |-> ManagerVals(<<Str_Business>>, <<>>, <<"plain">>, NoneVal),
      usage |-> [total_tokens |-> 5]],
     [shape |-> <<"txt">>,
      vals |-> ManagerVals(<<Str_Legal>>, <<"formal">>, <<"exact terms">>, Str_Legal),
      usage |-> [total_tokens |-> 5]],
     [shape |-> <<"}", "txt", "{">>,
      vals |-> ManagerVals(<<Str_Poetry>>, <<>>, <<>>, NoneVal),
      usage |-> [total_tokens |-> 5]],
     [shape |-> <<"{", "txt", "selected_translators", "}">>,
      vals |-> ManagerVals(<<Str_Literary>>, <<"lyrical">>, <<>>, Str_Literary),
      usage |-> EmptyDict]}

\* variant: total_tokens is looked up on the response itself
usage_total_tokens_top_level(reply) ==
    IF "total_tokens" \in DOMAIN reply THEN reply["total_tokens"] ELSE 0

\* data.get("usage", {}).get("total_tokens", 0)
usage_total_tokens(reply) ==
    IF "total_tokens" \in DOMAIN reply.usage THEN reply.usage["total_tokens"] ELSE 0

(***************************************************************************)
(* State.                                                                  *)
(***************************************************************************)
VARIABLES
    api_key,             \* self.api_key, None while no pipeline was constructed
    uploaded_file,       \* process_translation's file argument
    uploaded_terminology, \* process_translation's terminology_file argument
    translated_file,     \* what save_translated_file wrote, None before
    session,             \* the number of the process_translation call
    earlier_result,      \* what the call before this one returned
    earlier_list_live,   \* self.translation_details is the list it holds as "chunks"
    pc,                  \* where the call stands
    error,               \* the exception that ended it, "" when none
    text,                \* translate's chunk list
    requested_type,      \* translation_type as passed in
    translation_type,    \* translate's local, replaced by the detected style
    brief,               \* the manager brief
    terminology_dict,    \* terminology_handler.terminology_dict
    total_tokens,        \* self.total_tokens
    translation_details, \* self.translation_details
    translated_chunks,   \* translate's local list of final texts
    analysis,            \* the manager's decision
    i,                   \* chunk_number of the chunk in work
    chunk_details,       \* the record of the chunk in work
    initial_translation, \* locals of the loop body
    reflection,
    improved_translation,
    result,              \* translate's return value: <<text, details>>, <<>> when none
    calls                \* every model call of the session, in order

vars == <<api_key, uploaded_file, uploaded_terminology, translated_file, session,
          earlier_result, earlier_list_live, pc, error, text, requested_type, translation_type, brief, terminology_dict,
          total_tokens, translation_details, translated_chunks, analysis, i,
          chunk_details, initial_translation, reflection, improved_translation,
          result, calls>>

\* what no action of a session changes: the credential, the uploads, the
\* output file and what is kept of the call before
session_inputs == <<api_key, uploaded_file, uploaded_terminology, translated_file,
                    session, earlier_result, earlier_list_live>>

\* the state after TranslationPipeline.__init__
Init ==
    /\ api_key = ApiKey
    /\ uploaded_file = NoUpload
    /\ uploaded_terminology = NoFile
    /\ translated_file = NoneVal
    /\ session = 1
    /\ earlier_result = <<>>
    /\ earlier_list_live = FALSE
    /\ pc = "idle"
    /\ error = ""
    /\ text = <<>>
    /\ requested_type = <<>>
    /\ translation_type = <<>>
    /\ brief = ""
    /\ terminology_dict = EmptyDict
    /\ total_tokens = 0
    /\ translation_details = <<>>
    /\ translated_chunks = <<>>
    /\ analysis = EmptyDict
    /\ i = 0
    /\ chunk_details = EmptyDict
    /\ initial_translation = <<>>
    /\ reflection = <<>>
    /\ improved_translation = <<>>
    /\ result = <<>>
    /\ calls = <<>>

(***************************************************************************)
(* TranslationPipeline.translate                                           *)
(***************************************************************************)
StepNames == <<"Initial Translation", "Reflection", "Improved Translation",
               "Terminology Check">>

\* variant: the quality requirements are filled from the style guidelines
new_chunk_details_copied_key(n, chunk, ttype, an) ==
    [chunk_number |-> n,
     original_text |-> chunk,
     translation_type |-> ttype,
     selected_translators |-> an["selected_translators"],
     style_guidelines |-> an["style_guidelines"],
     quality_requirements |-> an["style_guidelines"],
     manager_reasoning |-> an["reasoning"],
     steps |-> <<>>]

\* variant: the records are numbered from 0
new_chunk_details_zero_based(n, chunk, ttype, an) ==
    [chunk_number |-> n - 1,
     original_text |-> chunk,
     translation_type |-> ttype,
     selected_translators |-> an["selected_translators"],
     style_guidelines |-> an["style_guidelines"],
     quality_requirements |-> an["quality_requirements"],
     manager_reasoning |-> an["reasoning"],
     steps |-> <<>>]

\* the dict literal that opens the loop body:
\* chunk_details = {"chunk_number": i + 1, "original_text": chunk, ...}
new_chunk_details(n, chunk, ttype, an) ==
    [chunk_number |-> n,
     original_text |-> chunk,
     translation_type |-> ttype,
     selected_translators |-> an["selected_translators"],
     style_guidelines |-> an["style_guidelines"],
     quality_requirements |-> an["quality_requirements"],
     manager_reasoning |-> an["reasoning"],
     steps |-> <<>>]

\* variant: the step is inserted at the head of the list
prepend_step(cd, step, res) ==
    [cd EXCEPT !.steps = <<[step |-> step, result |-> res]>> \o @]

\* variant: the new entry takes the place of the last one
append_step_over_last(cd, step, res) ==
    [cd EXCEPT !.steps = IF @ = <<>> THEN <<[step |-> step, result |-> res]>>
                         ELSE [@ EXCEPT ![Len(@)] = [step |-> step, result |-> res]]]

\* chunk_details["steps"].append({"step": ..., "result": ...})
append_step(cd, step, res) ==
    [cd EXCEPT !.steps = Append(@, [step |-> step, result |-> res])]

\* the details dict of the return statement
session_details(tokens, ttype, an, chunks) ==
    [total_tokens |-> tokens,
     translation_type |-> ttype,
     selected_translators |-> an["selected_translators"],
     style_guidelines |-> an["style_guidelines"],
     quality_requirements |-> an["quality_requirements"],
     manager_reasoning |-> an["reasoning"],
     chunks |-> chunks]

\* the keys translate reads from the analysis without a default
RequiredKeys == {"selected_translators", "style_guidelines", "quality_requirements",
                 "reasoning"}

\* the branch of _initial_translation_with_specialist
draft_route_master_fallback(ttype, sg, qr) ==
    IF Lower(ttype) = Str_literary THEN "literary"
    ELSE IF Lower(ttype) = Str_legal THEN "legal"
    ELSE "master"

\* variant: the two lists are looked at before the label
draft_route_lists_first(ttype, sg, qr) ==
    IF Truthy(sg) /\ Truthy(qr) THEN "master"
    ELSE IF Lower(ttype) = Str_literary THEN "literary"
    ELSE IF Lower(ttype) = Str_legal THEN "legal"
    ELSE IF Lower(ttype) = Str_master_translator THEN "master"
    ELSE "default"

\* the if / elif / else of _initial_translation_with_specialist
draft_route(ttype, sg, qr) ==
    LET lowered == Lower(ttype)
    IN  IF lowered = Str_literary THEN "literary"
        ELSE IF lowered = Str_legal THEN "legal"
        ELSE IF lowered = Str_master_translator \/ (Truthy(sg) /\ Truthy(qr))
             THEN "master"
             ELSE "default"

\* the prompt of the Draft call; only the Master profile is given the lists
draft_prompt(route, chunk, sg, qr) ==
    [kind |-> route, text |-> chunk,
     style_guidelines |-> IF route = "master" THEN sg ELSE <<>>,
     quality_requirements |-> IF route = "master" THEN qr ELSE <<>>]

format_prompt_for_reflection(original, translation) ==
    [original |-> original, translation |-> translation]

format_prompt_for_improvement(original, initial, refl) ==
    [original |-> original, initial_translation |-> initial, reflection |-> refl]

\* variant: only the first item of the dict reaches the prompt
format_prompt_first_term_only(translation, terminology) ==
    [terminology_list |->
        IF DOMAIN terminology = {} THEN {}
        ELSE LET source == CHOOSE x \in DOMAIN terminology : TRUE
             IN  {<<source, terminology[source]>>},
     translation |-> translation]

\* terminology_list holds one "source: target" line per item of the dict
format_prompt_for_terminology_check(translation, terminology) ==
    [terminology_list |-> {<<source, terminology[source]>> : source \in DOMAIN terminology},
     translation |-> translation]

\* variant: the early return is missing
terminology_never_empty(d) == FALSE

\* the early return of _check_terminology
terminology_is_empty(d) == DOMAIN d = {}

\* self.total_tokens += ... happens in the pipeline's own call_ai_api only;
\* ManagerAgent and BaseTranslator return the content and count nothing
counted_tokens(agent, reply) ==
    IF agent = "pipeline" THEN usage_total_tokens(reply) ELSE 0

\* an entry of the call log
call_entry(agent, stage, chunk, prompt, ok, reply) ==
    [agent |-> agent, stage |-> stage, chunk |-> chunk, prompt |-> prompt,
     ok |-> ok, reply |-> reply]

\* variant: a call without a glossary file clears the handler
terminology_cleared_without_upload(d, terminology_file) ==
    IF terminology_file # NoFile THEN load_terminology(d, terminology_file)
    ELSE EmptyDict

\* if terminology_file: self.translation_pipeline.set_terminology(...)
terminology_after_upload(d, terminology_file) ==
    IF terminology_file # NoFile THEN load_terminology(d, terminology_file)
    ELSE d

\* variant: the attribute keeps the list it had
translation_details_kept(d, live) == [list |-> d, live |-> live]

\* self.translation_details = []: the attribute is bound to a new list, which
\* no earlier result holds
rebind_translation_details(d, live) == [list |-> <<>>, live |-> FALSE]

\* process_translation up to the manager's call: process_file, the optional
\* set_terminology, and the first statements of translate
ProcessTranslation(file, terminology_file, ttype, br) ==
    LET file_ok == validate_file(file)
        glossary_ok == terminology_file = NoFile
                       \/ terminology_format_supported(terminology_file)
        entered == file_ok /\ glossary_ok
        needs_sample == ttype = Str_HelpMeToDecide \/ br = ""
        rebound == rebind_translation_details(translation_details, earlier_list_live)
    IN  /\ pc = "idle"
        /\ uploaded_file' = file
        /\ uploaded_terminology' = terminology_file
        /\ requested_type' = ttype
        /\ translation_type' = ttype
        /\ brief' = br
        /\ text' = IF file_ok THEN file.chunks ELSE <<>>
        /\ terminology_dict' =
              IF entered THEN terminology_after_upload(terminology_dict, terminology_file)
              ELSE terminology_dict
        /\ translated_chunks' = IF entered THEN <<>> ELSE translated_chunks
        /\ translation_details' = IF entered THEN rebound.list ELSE translation_details
        /\ earlier_list_live' = IF entered THEN rebound.live ELSE earlier_list_live
        /\ total_tokens' = IF entered THEN 0 ELSE total_tokens
        /\ error' = IF ~entered THEN "ValueError"
                    ELSE IF needs_sample /\ file.chunks = <<>> THEN "IndexError"
                    ELSE ""
        /\ pc' = IF error' = "" THEN "manager" ELSE "raised"
        /\ UNCHANGED <<api_key, translated_file, session, earlier_result, analysis, i,
                       chunk_details, initial_translation, reflection,
                       improved_translation, result, calls>>

\* text[0] if translation_type == "Help me to decide" else (text[0] if not brief else "")
source_text_for_analysis ==
    IF requested_type = Str_HelpMeToDecide \/ brief = "" THEN text[1] ELSE <<>>

\* the manager's call raises: translate re-raises
ManagerCallFails ==
    /\ pc = "manager"
    /\ calls' = Append(calls,
                  call_entry("manager", "Manager", 0,
                             manager_prompt(requested_type, brief, source_text_for_analysis),
                             FALSE, NoReply))
    /\ error' = "RequestException"
    /\ pc' = "raised"
    /\ UNCHANGED <<session_inputs, text, requested_type, translation_type, brief, terminology_dict,
                   total_tokens, translation_details, translated_chunks, analysis, i,
                   chunk_details, initial_translation, reflection,
                   improved_translation, result>>

\* variant: the detected style is taken only for "Help me to decide"
uses_detected_style_sentinel_only(br, ttype, an) ==
    ttype = Str_HelpMeToDecide /\ Truthy(DictGet(an, "detected_style"))

\* if (not brief or translation_type == "Help me to decide")
\*    and analysis.get("detected_style")
uses_detected_style(br, ttype, an) ==
    (br = "" \/ ttype = Str_HelpMeToDecide) /\ Truthy(DictGet(an, "detected_style"))

\* the manager's call returns: analyze_brief, the detected style, the reads of
\* the analysis, and the head of the loop (or the return, for no chunks)
ManagerCallReturns(response) ==
    LET an == analyze_response(response)
        use_detected == uses_detected_style(brief, translation_type, an)
        ttype == IF use_detected THEN an["detected_style"] ELSE translation_type
        complete == RequiredKeys \subseteq DOMAIN an
    IN  /\ pc = "manager"
        /\ calls' = Append(calls,
                      call_entry("manager", "Manager", 0,
                                 manager_prompt(requested_type, brief, source_text_for_analysis),
                                 TRUE, response))
        /\ analysis' = an
        /\ translation_type' = ttype
        /\ error' = IF complete THEN "" ELSE "KeyError"
        /\ pc' = IF ~complete THEN "raised"
                 ELSE IF text = <<>> THEN "returned" ELSE "draft"
        /\ i' = IF complete /\ text # <<>> THEN 1 ELSE i
        /\ chunk_details' = IF complete /\ text # <<>>
                            THEN new_chunk_details(1, text[1], ttype, an)
                            ELSE chunk_details
        /\ result' = IF complete /\ text = <<>>
                     THEN <<Join(translated_chunks),
                            session_details(total_tokens, ttype, an, translation_details)>>
                     ELSE result
        /\ UNCHANGED <<session_inputs, text, requested_type, brief, terminology_dict, total_tokens,
                       translation_details, translated_chunks, initial_translation,
                       reflection, improved_translation>>

\* variant: the loop body's handler prints and does not re-raise, so the loop
\* goes on with the next chunk
chunk_exception_swallowed ==
    /\ error' = ""
    /\ i' = IF i < Len(text) THEN i + 1 ELSE i
    /\ chunk_details' = IF i < Len(text)
                        THEN new_chunk_details(i + 1, text[i + 1], translation_type,
                                               analysis)
                        ELSE chunk_details
    /\ pc' = IF i < Len(text) THEN "draft" ELSE "returned"
    /\ result' = IF i < Len(text) THEN result
                 ELSE <<Join(translated_chunks),
                        session_details(total_tokens, translation_type, analysis,
                                        translation_details)>>
    /\ UNCHANGED <<translated_chunks, translation_details, initial_translation,
                   reflection, improved_translation>>

\* except Exception: print(...); raise -- of the loop body and of translate
chunk_exception ==
    /\ error' = "RequestException"
    /\ pc' = "raised"
    /\ UNCHANGED <<i, chunk_details, translated_chunks, translation_details, result,
                   initial_translation, reflection, improved_translation>>

\* variant: a stage whose call raised is called once more before the failure
\* is raised
stage_call_retried_once(agent, stage, prompt) ==
    /\ calls' = Append(calls, call_entry(agent, stage, i, prompt, FALSE, NoReply))
    /\ IF calls[Len(calls)].ok
       THEN UNCHANGED <<pc, error, i, chunk_details, translated_chunks,
                        translation_details, result, initial_translation,
                        reflection, improved_translation>>
       ELSE chunk_exception
    /\ UNCHANGED <<session_inputs, text, requested_type, translation_type, brief,
                   terminology_dict, total_tokens, analysis>>

\* a call of a chunk's stage raises
stage_call_fails(agent, stage, prompt) ==
    /\ calls' = Append(calls, call_entry(agent, stage, i, prompt, FALSE, NoReply))
    /\ chunk_exception
    /\ UNCHANGED <<session_inputs, text, requested_type, translation_type, brief, terminology_dict,
                   total_tokens, analysis>>

\* the agent that serves a Draft route
draft_agent(route) == IF route = "default" THEN "pipeline" ELSE route

\* Step 1: Initial Translation
DraftReturns(reply) ==
    LET route == draft_route(translation_type, analysis["style_guidelines"],
                             analysis["quality_requirements"])
        prompt == draft_prompt(route, text[i], analysis["style_guidelines"],
                               analysis["quality_requirements"])
    IN  /\ pc = "draft"
        /\ calls' = Append(calls, call_entry(draft_agent(route), StepNames[1], i,
                                             prompt, TRUE, reply))
        /\ total_tokens' = total_tokens + counted_tokens(draft_agent(route), reply)
        /\ initial_translation' = reply.content
        /\ chunk_details' = append_step(chunk_details, StepNames[1], reply.content)
        /\ pc' = "reflect"
        /\ UNCHANGED <<session_inputs, error, text, requested_type, translation_type, brief,
                       terminology_dict, translation_details, translated_chunks,
                       analysis, i, reflection, improved_translation, result>>

DraftFails ==
    LET route == draft_route(translation_type, analysis["style_guidelines"],
                             analysis["quality_requirements"])
    IN  /\ pc = "draft"
        /\ stage_call_fails(draft_agent(route), StepNames[1],
                            draft_prompt(route, text[i], analysis["style_guidelines"],
                                         analysis["quality_requirements"]))

\* Step 2: Reflection
ReflectReturns(reply) ==
    /\ pc = "reflect"
    /\ calls' = Append(calls, call_entry("pipeline", StepNames[2], i,
                         format_prompt_for_reflection(text[i], initial_translation),
                         TRUE, reply))
    /\ total_tokens' = total_tokens + counted_tokens("pipeline", reply)
    /\ reflection' = reply.content
    /\ chunk_details' = append_step(chunk_details, StepNames[2], reply.content)
    /\ pc' = "improve"
    /\ UNCHANGED <<session_inputs, error, text, requested_type, translation_type, brief,
                   terminology_dict, translation_details, translated_chunks, analysis,
                   i, initial_translation, improved_translation, result>>

ReflectFails ==
    /\ pc = "reflect"
    /\ stage_call_fails("pipeline", StepNames[2],
                        format_prompt_for_reflection(text[i], initial_translation))

\* Step 3: Improved Translation
ImproveReturns(reply) ==
    /\ pc = "improve"
    /\ calls' = Append(calls, call_entry("pipeline", StepNames[3], i,
                         format_prompt_for_improvement(text[i], initial_translation,
                                                       reflection),
                         TRUE, reply))
    /\ total_tokens' = total_tokens + counted_tokens("pipeline", reply)
    /\ improved_translation' = reply.content
    /\ chunk_details' = append_step(chunk_details, StepNames[3], reply.content)
    /\ pc' = "terminology"
    /\ UNCHANGED <<session_inputs, error, text, requested_type, translation_type, brief,
                   terminology_dict, translation_details, translated_chunks, analysis,
                   i, initial_translation, reflection, result>>

ImproveFails ==
    /\ pc = "improve"
    /\ stage_call_fails("pipeline", StepNames[3],
                        format_prompt_for_improvement(text[i], initial_translation,
                                                      reflection))

\* self.translation_details.append(chunk_details), seen from the result of
\* the call before: its "chunks" grows when it is that same list
held_result_after_append(held, live, cd) ==
    IF live /\ held # <<>>
    THEN <<held[1], [held[2] EXCEPT !.chunks = Append(@, cd)]>>
    ELSE held

\* the rest of the loop body once final_translation is known: the fourth
\* step, the two appends, and either the next chunk or the return
finish_chunk(final_translation, tokens) ==
    LET cd == append_step(chunk_details, StepNames[4], final_translation)
        done_chunks == Append(translated_chunks, final_translation)
        done_details == Append(translation_details, cd)
        last == i = Len(text)
    IN  /\ translated_chunks' = done_chunks
        /\ translation_details' = done_details
        /\ i' = IF last THEN i ELSE i + 1
        /\ chunk_details' = IF last THEN cd
                            ELSE new_chunk_details(i + 1, text[i + 1], translation_type,
                                                   analysis)
        /\ pc' = IF last THEN "returned" ELSE "draft"
        /\ result' = IF last
                     THEN <<Join(done_chunks),
                            session_details(tokens, translation_type, analysis,
                                            done_details)>>
                     ELSE result
        /\ earlier_result' = held_result_after_append(earlier_result, earlier_list_live, cd)
        /\ UNCHANGED <<api_key, uploaded_file, uploaded_terminology, translated_file,
                       session, earlier_list_live, error, text, requested_type,
                       translation_type, brief, analysis, initial_translation,
                       reflection, improved_translation>>

\* Step 4: Terminology Check, with no glossary: no call
TerminologyCheckSkipped ==
    /\ pc = "terminology"
    /\ terminology_is_empty(terminology_dict)
    /\ finish_chunk(improved_translation, total_tokens)
    /\ UNCHANGED <<total_tokens, calls, terminology_dict>>

\* variant: get_all_terms hands out the dict itself and the check uses the
\* pairs up
terminology_dict_after_check_consumed(d) == EmptyDict

\* the handler's dict after _check_terminology: the prompt is built from
\* get_all_terms(), a copy, and nothing assigns or updates terminology_dict
terminology_dict_after_check(d) == d

\* Step 4: Terminology Check, with a glossary
TerminologyCheckReturns(reply) ==
    /\ pc = "terminology"
    /\ ~terminology_is_empty(terminology_dict)
    /\ calls' = Append(calls, call_entry("pipeline", StepNames[4], i,
                         format_prompt_for_terminology_check(improved_translation,
                                                             terminology_dict),
                         TRUE, reply))
    /\ total_tokens' = total_tokens + counted_tokens("pipeline", reply)
    /\ terminology_dict' = terminology_dict_after_check(terminology_dict)
    /\ finish_chunk(reply.content, total_tokens')

TerminologyCheckFails ==
    /\ pc = "terminology"
    /\ ~terminology_is_empty(terminology_dict)
    /\ stage_call_fails("pipeline", StepNames[4],
                        format_prompt_for_terminology_check(improved_translation,
                                                            terminology_dict))

Next ==
    \/ \E file \in Files, terminology_file \in TerminologyFiles,
          ttype \in TranslationTypes, br \in Briefs :
          ProcessTranslation(file, terminology_file, ttype, br)
    \/ ManagerCallFails
    \/ \E response \in ManagerResponses : ManagerCallReturns(response)
    \/ DraftFails
    \/ \E reply \in ModelReplies : DraftReturns(reply)
    \/ ReflectFails
    \/ \E reply \in ModelReplies : ReflectReturns(reply)
    \/ ImproveFails
    \/ \E reply \in ModelReplies : ImproveReturns(reply)
    \/ TerminologyCheckSkipped
    \/ \E reply \in ModelReplies : TerminologyCheckReturns(reply)
    \/ TerminologyCheckFails

Spec == Init /\ [][Next]_vars

(***************************************************************************)
(* Sessions over a Legal brief and no glossary, on documents of up to one  *)
(* chunk more than MaxChunks.                                              *)
(***************************************************************************)
LegalBriefFiles ==
    {[ext |-> ".txt", chunks |-> SubSeq(SourceChunks, 1, n)] : n \in 0..(MaxChunks + 1)}

\* with no glossary the Terminology Check never calls
NextLegalBrief ==
    \/ \E file \in LegalBriefFiles, br \in Briefs \ {""} :
          ProcessTranslation(file, NoFile, Str_Legal, br)
    \/ ManagerCallFails
    \/ \E response \in ManagerResponses : ManagerCallReturns(response)
    \/ DraftFails
    \/ \E reply \in ModelReplies : DraftReturns(reply)
    \/ ReflectFails
    \/ \E reply \in ModelReplies : ReflectReturns(reply)
    \/ ImproveFails
    \/ \E reply \in ModelReplies : ImproveReturns(reply)
    \/ TerminologyCheckSkipped

SpecLegalBrief == Init /\ [][NextLegalBrief]_vars

(***************************************************************************)
(* FileHandler.save_translated_file on a presentation: sessions over a     *)
(* Legal brief and no glossary, followed by the save of the output file.   *)
(***************************************************************************)
MaxSlides == 2

\* the text on the slides of the longest presentation
SlideTexts == <<<<"slide one">>, <<"slide two">>, <<"slide three">>, <<"slide four">>>>

\* presentations: the chunks process_file returns and the slides of the file
PptxFiles ==
    {[ext |-> ".pptx", chunks |-> SubSeq(SourceChunks, 1, n),
      slides |-> SubSeq(SlideTexts, 1, m)] : n \in 0..MaxChunks, m \in 0..MaxSlides}

\* the inner loop: the result of the first step named 'Terminology Check'
RECURSIVE first_terminology_check(_, _)
first_terminology_check(steps, k) ==
    IF k > Len(steps) THEN NoneVal
    ELSE IF steps[k].step = "Terminology Check" THEN steps[k].result
    ELSE first_terminology_check(steps, k + 1)

\* the outer loop over translation_details['chunks']
RECURSIVE paragraphs_from(_, _)
paragraphs_from(chunks, k) ==
    IF k > Len(chunks) THEN <<>>
    ELSE LET para == first_terminology_check(chunks[k].steps, 1)
         IN  (IF para = NoneVal THEN <<>> ELSE <<para>>) \o paragraphs_from(chunks, k + 1)

\* text_to_save; process_translation always passes details that hold 'chunks'
text_to_save(translated_text, details) == paragraphs_from(details.chunks, 1)

\* variant: a slide beyond the paragraphs keeps its text
save_pptx_keeping_text(slides, paragraphs) ==
    [n \in 1..Len(slides) |->
        IF n <= Len(paragraphs) THEN paragraphs[n] ELSE slides[n]]

\* the .pptx branch: every text shape is removed, then paragraph i goes into
\* a new textbox on slide i if i < len(prs.slides)
save_pptx(slides, paragraphs) ==
    [n \in 1..Len(slides) |->
        IF n <= Len(paragraphs) THEN paragraphs[n] ELSE <<>>]

\* process_translation after translate returned, for a .pptx upload
SaveTranslatedFile ==
    /\ pc = "returned"
    /\ uploaded_file.ext = ".pptx"
    /\ translated_file' = save_pptx(uploaded_file.slides,
                                    text_to_save(result[1], result[2]))
    /\ pc' = "saved"
    /\ UNCHANGED <<api_key, uploaded_file, uploaded_terminology, session,
                   earlier_result, earlier_list_live, error, text, requested_type, translation_type,
                   brief, terminology_dict, total_tokens, translation_details,
                   translated_chunks, analysis, i, chunk_details,
                   initial_translation, reflection, improved_translation, result,
                   calls>>

NextPptx ==
    \/ \E file \in PptxFiles, br \in Briefs \ {""} :
          ProcessTranslation(file, NoFile, Str_Legal, br)
    \/ ManagerCallFails
    \/ \E response \in ManagerResponses : ManagerCallReturns(response)
    \/ DraftFails
    \/ \E reply \in ModelReplies : DraftReturns(reply)
    \/ ReflectFails
    \/ \E reply \in ModelReplies : ReflectReturns(reply)
    \/ ImproveFails
    \/ \E reply \in ModelReplies : ImproveReturns(reply)
    \/ TerminologyCheckSkipped
    \/ SaveTranslatedFile

SpecPptx == Init /\ [][NextPptx]_vars

(***************************************************************************)
(* Consecutive process_translation calls on one TranslationApp: the        *)
(* pipeline object, with its terminology handler, total_tokens and         *)
(* translation_details, lives on from call to call.                        *)
(***************************************************************************)
MaxSessions == 2

\* documents of at least one chunk
SessionFiles ==
    {[ext |-> ".txt", chunks |-> SubSeq(SourceChunks, 1, n)] : n \in 1..MaxChunks}

\* glossary uploads: none, a JSON file, a TXT file that redefines one of the
\* JSON file's terms and adds another, and a file of an unsupported format
SessionTerminologyFiles ==
    {NoFile,
     [ext |-> "json", pairs |-> << <<"Acme", "Acme-FR">>, <<"invoice", "facture">> >>],
     [ext |-> "txt", pairs |-> << <<"invoice", "note">>, <<"clause", "article">> >>],
     [ext |-> "doc", pairs |-> << <<"Acme", "Acme-FR">> >>]}

\* the manager's reply that selects Legal in an object holding every field
SessionManagerResponses ==
    {r \in ManagerResponses :
        /\ r.vals.selected_translators = <<Str_Legal>>
        /\ r.vals.detected_style = NoneVal
        /\ RequiredKeys \subseteq {r.shape[k] : k \in 1..Len(r.shape)}}

\* completions that report their usage
SessionReplies == {r \in ModelReplies : r.usage # EmptyDict}

\* process_translation has returned to the caller and is called again: the
\* locals are gone, the pipeline's attributes stay
NextCall ==
    /\ pc \in {"returned", "raised"}
    /\ session < MaxSessions
    /\ session' = session + 1
    /\ earlier_result' = result
    /\ earlier_list_live' = (result # <<>>)
    /\ pc' = "idle"
    /\ error' = ""
    /\ result' = <<>>
    /\ calls' = <<>>
    /\ text' = <<>>
    /\ requested_type' = <<>>
    /\ translation_type' = <<>>
    /\ brief' = ""
    /\ translated_chunks' = <<>>
    /\ analysis' = EmptyDict
    /\ i' = 0
    /\ chunk_details' = EmptyDict
    /\ initial_translation' = <<>>
    /\ reflection' = <<>>
    /\ improved_translation' = <<>>
    /\ UNCHANGED <<api_key, uploaded_file, uploaded_terminology, translated_file,
                   terminology_dict, total_tokens, translation_details>>

NextSessions ==
    \/ \E file \in SessionFiles, terminology_file \in SessionTerminologyFiles,
          br \in Briefs \ {""} :
          ProcessTranslation(file, terminology_file, Str_Legal, br)
    \/ ManagerCallFails
    \/ \E response \in SessionManagerResponses : ManagerCallReturns(response)
    \/ DraftFails
    \/ \E reply \in SessionReplies : DraftReturns(reply)
    \/ ReflectFails
    \/ \E reply \in SessionReplies : ReflectReturns(reply)
    \/ ImproveFails
    \/ \E reply \in SessionReplies : ImproveReturns(reply)
    \/ TerminologyCheckSkipped
    \/ \E reply \in SessionReplies : TerminologyCheckReturns(reply)
    \/ TerminologyCheckFails
    \/ NextCall

SpecSessions == Init /\ [][NextSessions]_vars

(***************************************************************************)
(* Sessions under a range of manager decisions: labels in several          *)
(* spellings, with and without the two lists, and selections of names that *)
(* match one registry key, several, or none.                               *)
(***************************************************************************)
DecisionTypes == {Str_HelpMeToDecide, Str_MasterTranslator, Str_Business}

\* every reply is an object holding all five fields
DecisionShape == <<"{", "detected_style", "selected_translators", "style_guidelines",
                   "quality_requirements", "reasoning", "}">>

DecisionResponses ==
    {[shape |-> DecisionShape, usage |-> [total_tokens |-> 5],
      vals |-> ManagerVals(<<Str_Marketing_news>>, <<"formal">>, <<"exact terms">>,
                           Str_LEGAL)],
     [shape |-> DecisionShape, usage |-> [total_tokens |-> 5],
      vals |-> ManagerVals(<<Str_Master, Str_MASTER_TRANSLATOR_lead>>, <<>>, <<>>,
                           Str_literary)],
     [shape |-> DecisionShape, usage |-> [total_tokens |-> 5],
      vals |-> ManagerVals(<<Str_Leg, Str_legal_and_literary>>, <<>>, <<>>, NoneVal)],
     [shape |-> DecisionShape, usage |-> [total_tokens |-> 5],
      vals |-> ManagerVals(<<Str_Business>>, <<"plain">>, <<"short sentences">>,
                           NoneVal)],
     [shape |-> DecisionShape, usage |-> [total_tokens |-> 5],
      vals |-> ManagerVals(<<Str_Legal>>, <<"plain">>, <<"short sentences">>, NoneVal)],
     [shape |-> DecisionShape, usage |-> [total_tokens |-> 5],
      vals |-> ManagerVals(<<Str_Technical, Str_Medical, Str_News, Str_Academic,
                             Str_Marketing, Str_Poetry>>,
                           <<"precise">>, <<>>, Str_Technical)]}

NextDecisions ==
    \/ \E file \in SessionFiles, ttype \in DecisionTypes, br \in Briefs \ {""} :
          ProcessTranslation(file, NoFile, ttype, br)
    \/ ManagerCallFails
    \/ \E response \in DecisionResponses : ManagerCallReturns(response)
    \/ DraftFails
    \/ \E reply \in ModelReplies : DraftReturns(reply)
    \/ ReflectFails
    \/ \E reply \in ModelReplies : ReflectReturns(reply)
    \/ ImproveFails
    \/ \E reply \in ModelReplies : ImproveReturns(reply)
    \/ TerminologyCheckSkipped

SpecDecisions == Init /\ [][NextDecisions]_vars

(***************************************************************************)
(* Construction: TranslationPipeline.__init__ reads AI_API_KEY, and so do  *)
(* the agents it constructs.                                               *)
(***************************************************************************)
\* os.getenv("AI_API_KEY"): unset, set to the empty string, or set
EnvKeys == {NoneVal, <<>>, ApiKey}

\* variant: only an unset variable counts as missing
api_key_is_none(key) == key = NoneVal

\* if not self.api_key
api_key_missing(key) == ~Truthy(key)

\* before TranslationApp() is constructed
InitUnconstructed ==
    /\ api_key = NoneVal
    /\ uploaded_file = NoUpload
    /\ uploaded_terminology = NoFile
    /\ translated_file = NoneVal
    /\ session = 1
    /\ earlier_result = <<>>
    /\ earlier_list_live = FALSE
    /\ pc = "unconstructed"
    /\ error = ""
    /\ text = <<>>
    /\ requested_type = <<>>
    /\ translation_type = <<>>
    /\ brief = ""
    /\ terminology_dict = EmptyDict
    /\ total_tokens = 0
    /\ translation_details = <<>>
    /\ translated_chunks = <<>>
    /\ analysis = EmptyDict
    /\ i = 0
    /\ chunk_details = EmptyDict
    /\ initial_translation = <<>>
    /\ reflection = <<>>
    /\ improved_translation = <<>>
    /\ result = <<>>
    /\ calls = <<>>

\* TranslationPipeline.__init__: raises ValueError when the key is missing,
\* and no object exists; otherwise the pipeline stands ready
Construct(env_key) ==
    /\ pc = "unconstructed"
    /\ api_key' = env_key
    /\ error' = IF api_key_missing(env_key) THEN "ValueError" ELSE ""
    /\ pc' = IF api_key_missing(env_key) THEN "no_pipeline" ELSE "idle"
    /\ UNCHANGED <<uploaded_file, uploaded_terminology, translated_file, session,
                   earlier_result, earlier_list_live, text, requested_type, translation_type, brief, terminology_dict, total_tokens,
                   translation_details, translated_chunks, analysis, i,
                   chunk_details, initial_translation, reflection,
                   improved_translation, result, calls>>

NextConstruction ==
    \/ \E env_key \in EnvKeys : Construct(env_key)
    \/ Next

SpecConstruction == InitUnconstructed /\ [][NextConstruction]_vars

(***************************************************************************)
(* Properties.                                                             *)
(***************************************************************************)
\* the states in which a chunk is in work
InChunk == pc \in {"draft", "reflect", "improve", "terminology"}

\* the token cost the replies of calls[1..k] reported
RECURSIVE ReportedTokens(_)
ReportedTokens(k) ==
    IF k = 0 THEN 0
    ELSE ReportedTokens(k - 1)
         + (IF calls[k].ok THEN usage_total_tokens(calls[k].reply) ELSE 0)

\* the indices of the calls of one stage of one chunk
CallsOf(stage, chunk) ==
    {k \in 1..Len(calls) : calls[k].stage = stage /\ calls[k].chunk = chunk}

\* C1: after a translate call that completes, the result's total_tokens is
\* the sum of the token costs reported by every model call of the session
\* (the manager's call and every stage call of every chunk), and is not
\* negative.
C1_TotalTokensSumsEveryCall ==
    pc = "returned" =>
        /\ result[2].total_tokens = ReportedTokens(Len(calls))
        /\ result[2].total_tokens >= 0

\* C2: a model call that fails at a stage of a chunk ends translate at once:
\* the failure is raised, no (text, details) result exists, and the failed
\* call is the last call of the session.
C2_StageFailureAborts ==
    \A k \in 1..Len(calls) :
        (calls[k].chunk >= 1 /\ ~calls[k].ok) =>
            /\ k = Len(calls)
            /\ pc = "raised"
            /\ error = "RequestException"
            /\ result = <<>>

\* C2 witness: the Reflect call of chunk 1 of a two-chunk document failed
C2_Witness ==
    /\ pc = "raised"
    /\ Len(text) = 2
    /\ calls # <<>>
    /\ calls[Len(calls)].stage = "Reflection"
    /\ calls[Len(calls)].chunk = 1
    /\ ~calls[Len(calls)].ok

\* C3: when the session aborts on a call failure in a chunk k > 1, no record
\* of a completed chunk of that session is retained or surfaced.
C3_AbortDiscardsCompletedRecords ==
    (pc = "raised" /\ calls # <<>> /\ calls[Len(calls)].chunk > 1) =>
        /\ translation_details = <<>>
        /\ result = <<>>

\* the names of the steps of a chunk record
StepNamesOf(cd) == [k \in 1..Len(cd.steps) |-> cd.steps[k].step]

\* the position of a stage in the pipeline
StageRank(stage) == CHOOSE r \in 1..Len(StepNames) : StepNames[r] = stage

\* C4: in every chunk the stages run in the order Draft, Reflect, Revise,
\* TerminologyCheck, each at most once and never backwards, and every chunk
\* record of a returned result has exactly the four step entries in that
\* order.
C4_StagesInOrder ==
    /\ \A n \in 1..Len(translation_details) :
          StepNamesOf(translation_details[n]) = StepNames
    /\ pc = "returned" =>
          /\ Len(result[2].chunks) = Len(text)
          /\ \A n \in 1..Len(result[2].chunks) :
                StepNamesOf(result[2].chunks[n]) = StepNames
    /\ InChunk =>
          StepNamesOf(chunk_details) = SubSeq(StepNames, 1, Len(chunk_details.steps))
    /\ \A l \in 3..Len(calls) :
          \* each call against the one before it; the order is transitive
          LET k == l - 1
          IN  \/ calls[k].chunk < calls[l].chunk
              \/ /\ calls[k].chunk = calls[l].chunk
                 /\ StageRank(calls[k].stage) < StageRank(calls[l].stage)

\* C4 witness: a two-chunk session with a glossary returned, four calls a chunk
C4_Witness ==
    /\ pc = "returned"
    /\ Len(result[2].chunks) = 2
    /\ \A n \in 1..2 : \A r \in 1..4 : Cardinality(CallsOf(StepNames[r], n)) = 1

\* the finalized text of chunk record n of the result
FinalText(n) == result[2].chunks[n].steps[4].result

\* where chunk n's text starts in the assembled output (0-based)
RECURSIVE FinalOffset(_)
FinalOffset(n) ==
    IF n = 1 THEN 0 ELSE FinalOffset(n - 1) + Len(FinalText(n - 1)) + 1

\* C5: the assembled text of a completed session is the chunks'
\* TerminologyCheck outputs in chunk order with the separator between them:
\* chunk i's finalized text stands at position i.
C5_AssembledInChunkOrder ==
    pc = "returned" =>
        LET n == Len(result[2].chunks)
            out == result[1]
        IN  /\ n = Len(text)
            /\ \A k \in 1..n :
                  /\ result[2].chunks[k].original_text = text[k]
                  /\ result[2].chunks[k].steps[4].step = "Terminology Check"
                  /\ SubSeq(out, FinalOffset(k) + 1, FinalOffset(k) + Len(FinalText(k)))
                       = FinalText(k)
                  /\ k < n => out[FinalOffset(k + 1)] = "\n"
            /\ Len(out) = IF n = 0 THEN 0 ELSE FinalOffset(n) + Len(FinalText(n))

\* C5 witness: two chunks with different finalized texts were assembled
C5_Witness ==
    /\ pc = "returned"
    /\ Len(result[2].chunks) = 2
    /\ FinalText(1) # FinalText(2)

\* C6: with an empty terminology map the TerminologyCheck stage makes no
\* model call and its recorded output is the Revise output of the chunk.
C6_EmptyGlossaryPassesThrough ==
    DOMAIN terminology_dict = {} =>
        /\ \A k \in 1..Len(calls) : calls[k].stage # "Terminology Check"
        /\ \A n \in 1..Len(translation_details) :
              /\ translation_details[n].steps[4].result
                   = translation_details[n].steps[3].result
              /\ translated_chunks[n] = translation_details[n].steps[3].result

\* C6 witness: a two-chunk session without glossary returned
C6_Witness ==
    /\ pc = "returned"
    /\ DOMAIN terminology_dict = {}
    /\ Len(translation_details) = 2

\* C7: with a non-empty terminology map the TerminologyCheck stage makes
\* exactly one model call per chunk, on the Revise output and the whole
\* glossary, and the text that call returns is the fourth step and the
\* chunk's final text, also when it equals the Revise output.
C7_GlossaryCheckCalledOnce ==
    DOMAIN terminology_dict # {} =>
        \A n \in 1..Len(translation_details) :
            /\ Cardinality(CallsOf("Terminology Check", n)) = 1
            /\ \A k \in CallsOf("Terminology Check", n) :
                  /\ calls[k].ok
                  /\ calls[k].prompt.translation = translation_details[n].steps[3].result
                  /\ calls[k].prompt.terminology_list
                       = {<<s, terminology_dict[s]>> : s \in DOMAIN terminology_dict}
                  /\ translation_details[n].steps[4].result = calls[k].reply.content
                  /\ translated_chunks[n] = calls[k].reply.content

\* C7 witness: the check ran with a two-term glossary and returned the
\* Revise output unchanged
C7_Witness ==
    /\ Cardinality(DOMAIN terminology_dict) = 2
    /\ Len(translation_details) >= 1
    /\ translation_details[1].steps[4].result = translation_details[1].steps[3].result
    /\ CallsOf("Terminology Check", 1) # {}

\* the decision fields a chunk record or a result carries
DecisionOf(r) ==
    <<r.selected_translators, r.style_guidelines, r.quality_requirements,
      r.manager_reasoning>>

\* the decision held in the analysis
DecisionOfAnalysis ==
    <<analysis["selected_translators"], analysis["style_guidelines"],
      analysis["quality_requirements"], analysis["reasoning"]>>

\* C8: the Style Manager makes exactly one model call and one decision in a
\* session, the call completes before the first chunk's Draft, and every
\* chunk of the session carries that same decision.
C8_OneManagerDecision ==
    /\ \A k \in 1..Len(calls) : (calls[k].stage = "Manager") = (k = 1)
    /\ Len(calls) > 1 => calls[1].ok
    /\ (InChunk \/ pc = "returned") =>
          /\ Cardinality(CallsOf("Manager", 0)) = 1
          /\ calls[1].ok
          /\ RequiredKeys \subseteq DOMAIN analysis
          /\ \A n \in 1..Len(translation_details) :
                DecisionOf(translation_details[n]) = DecisionOfAnalysis
    /\ InChunk => DecisionOf(chunk_details) = DecisionOfAnalysis
    /\ pc = "returned" =>
          /\ DecisionOf(result[2]) = DecisionOfAnalysis
          /\ \A n \in 1..Len(result[2].chunks) :
                DecisionOf(result[2].chunks[n]) = DecisionOfAnalysis

\* C8 witness: a two-chunk session returned whose decision has different
\* guideline and requirement lists
C8_Witness ==
    /\ pc = "returned"
    /\ Len(result[2].chunks) = 2
    /\ result[2].style_guidelines # result[2].quality_requirements

\* the reply holds no JSON object: the text from its first "{" to its last
\* "}" is missing or is no well-formed object
HoldsNoJsonObject(shape) ==
    \/ \A k \in 1..Len(shape) : shape[k] # "{"
    \/ \A k \in 1..Len(shape) : shape[k] # "}"
    \/ LET a == CHOOSE k \in 1..Len(shape) :
                   shape[k] = "{" /\ \A j \in 1..(k - 1) : shape[j] # "{"
           b == CHOOSE k \in 1..Len(shape) :
                   shape[k] = "}" /\ \A j \in (k + 1)..Len(shape) : shape[j] # "}"
       IN  a > b \/ \E j \in (a + 1)..(b - 1) : shape[j] \notin JsonKeys

\* C9: when the manager's reply cannot be parsed as a JSON object,
\* analyze_brief does not fail and returns one fixed decision: the same
\* profile, guideline list and requirement list whatever the reply holds.
C9_MalformedReplyGivesDefault ==
    (calls # <<>> /\ calls[1].ok /\ HoldsNoJsonObject(calls[1].reply.shape)) =>
        /\ error # "KeyError"
        /\ RequiredKeys \subseteq DOMAIN analysis
        /\ analysis["selected_translators"] = <<Str_MasterTranslator>>
        /\ analysis["style_guidelines"] = <<"Maintain professional tone", "Ensure accuracy">>
        /\ analysis["quality_requirements"] = <<"High accuracy", "Natural flow">>
        /\ analysis["detected_style"] = NoneVal

\* C9 witness: a session ran on after a reply whose braces hold no object
C9_Witness ==
    /\ pc = "returned"
    /\ calls[1].reply.shape = <<"{", "txt", "selected_translators", "}">>
    /\ Len(text) >= 1

\* sub occurs in s as a run of consecutive characters
IsInfix(sub, s) ==
    \E pre \in 0..Len(s) :
        /\ pre + Len(sub) <= Len(s)
        /\ \A k \in 1..Len(sub) : s[pre + k] = sub[k]

\* the registry entries whose key, ignoring case, occurs in the name
MatchingEntries(name) ==
    {k \in 1..Len(available_translators) :
        IsInfix(Lower(available_translators[k][1]), Lower(name))}

\* analyze_brief has just returned from a reply that parsed and named
\* profiles
RepliedProfiles ==
    /\ Len(calls) = 1
    /\ calls[1].ok
    /\ ~HoldsNoJsonObject(calls[1].reply.shape)
    /\ \E k \in 1..Len(calls[1].reply.shape) :
          calls[1].reply.shape[k] = "selected_translators"

\* C10: a profile name the manager's reply gives resolves to a registered
\* profile whose name it matches as a substring, ignoring case (the
\* registry key occurring in the returned name), and to the Master profile
\* when it matches none.
C10_ProfileResolution ==
    RepliedProfiles =>
        LET returned == calls[1].reply.vals["selected_translators"]
            resolved == analysis["selected_translators"]
        IN  /\ Len(resolved) = Len(returned)
            /\ \A j \in 1..Len(returned) :
                  IF MatchingEntries(returned[j]) = {}
                  THEN resolved[j] = Str_MasterTranslator
                  ELSE \E k \in MatchingEntries(returned[j]) :
                          resolved[j] = available_translators[k][2]

\* C10 witness: a name in another case resolved to its profile and an
\* unknown name to the Master profile
C10_Witness ==
    /\ RepliedProfiles
    /\ calls[1].reply.vals["selected_translators"] = <<Str_LITERARY_expert, Str_Poetry>>
    /\ analysis["selected_translators"] = <<Str_LiteraryTranslator, Str_MasterTranslator>>
\* ---------------------------------------------------------------------------
\* C11: when the auto-detect path was used ("Help me to decide" was requested
\* or the brief is empty) and the manager's decision carries a detected style,
\* that style routes the Draft of every chunk and is the translation_type of
\* the result; in every other session the requested type does both.

AutoDetectPath == requested_type = Str_HelpMeToDecide \/ brief = ""

ManagerReturned == calls # <<>> /\ calls[1].ok

EffectiveType ==
    IF AutoDetectPath /\ Truthy(DictGet(analysis, "detected_style"))
    THEN analysis["detected_style"]
    ELSE requested_type

C11_DetectedStyleSupersedes ==
    ManagerReturned =>
        LET effective == EffectiveType
            route == draft_route(effective, DictGet(analysis, "style_guidelines"),
                                 DictGet(analysis, "quality_requirements"))
        IN  /\ translation_type = effective
            /\ \A k \in 2..Len(calls) :
                   calls[k].stage = StepNames[1] => calls[k].prompt.kind = route
            /\ \A k \in 1..Len(translation_details) :
                   translation_details[k].translation_type = effective
            /\ pc = "returned" => result[2].translation_type = effective

\* a session with type Legal and no brief, whose manager detected Literary,
\* returned after its Drafts went to the literary specialist
C11_Witness ==
    /\ pc = "returned"
    /\ requested_type = Str_Legal
    /\ brief = ""
    /\ analysis["detected_style"] = Str_Literary
    /\ result[2].translation_type = Str_Literary
    /\ Len(text) = MaxChunks
    /\ \A k \in 1..Len(text) : \E c \in 1..Len(calls) :
           /\ calls[c].stage = StepNames[1]
           /\ calls[c].chunk = k
           /\ calls[c].agent = "literary"

\* ---------------------------------------------------------------------------
\* C12: in the Draft stage of every chunk, a decision that selected a single
\* profile has the Draft made by that specialist's translate operation, and a
\* decision that selected more than one profile has it made by the Master
\* profile's translate operation, given the decision's two lists.

\* the registry profile whose translate operation an agent of the call log is;
\* the pipeline's own generic prompt is no profile
ProfileOfAgent(agent) ==
    CASE agent = "legal" -> Str_LegalTranslator
      [] agent = "literary" -> Str_LiteraryTranslator
      [] agent = "master" -> Str_MasterTranslator
      [] OTHER -> NoneVal

DraftCalls == {k \in 1..Len(calls) : calls[k].stage = StepNames[1]}

C12_DraftBySelectedProfile ==
    \A k \in DraftCalls :
        LET sel == analysis["selected_translators"]
        IN  /\ Len(sel) = 1 => ProfileOfAgent(calls[k].agent) = sel[1]
            /\ Len(sel) > 1 =>
                   /\ calls[k].agent = "master"
                   /\ calls[k].prompt.style_guidelines = analysis["style_guidelines"]
                   /\ calls[k].prompt.quality_requirements
                         = analysis["quality_requirements"]

\* ---------------------------------------------------------------------------
\* C13: in every session result, selected_translators names exactly the
\* profiles whose translate operation produced a Draft in the session.

\* the profiles whose translate operation returned a Draft
ProfilesUsed ==
    {ProfileOfAgent(calls[k].agent) : k \in {d \in DraftCalls : calls[d].ok}}
        \ {NoneVal}

C13_SelectedAreTheProfilesUsed ==
    pc = "returned" =>
        LET sel == result[2].selected_translators
        IN  {sel[j] : j \in 1..Len(sel)} = ProfilesUsed

\* ---------------------------------------------------------------------------
\* C14: a session of n chunks that completes made one Style Manager call and,
\* for every chunk, one Draft, one Reflect and one Revise call, plus one
\* Terminology Check call per chunk exactly when the glossary is not empty:
\* 1 + 3n calls with an empty glossary and 1 + 4n otherwise.  No stage of a
\* chunk is ever called twice, and a call that failed is followed by no call.

CallsPerChunk == IF terminology_dict = EmptyDict THEN 3 ELSE 4

C14_OneCallPerExecutedStage ==
    /\ Cardinality({<<calls[k].stage, calls[k].chunk>> : k \in 1..Len(calls)})
          = Len(calls)
    /\ \A k \in 1..Len(calls) :
           ~calls[k].ok => k = Len(calls) /\ pc = "raised"
    /\ pc = "returned" =>
           /\ Len(calls) = 1 + CallsPerChunk * Len(text)
           /\ Cardinality(CallsOf("Manager", 0)) = 1
           /\ \A n \in 1..Len(text) :
                  /\ \A st \in 1..3 : Cardinality(CallsOf(StepNames[st], n)) = 1
                  /\ Cardinality(CallsOf(StepNames[4], n))
                        = IF terminology_dict = EmptyDict THEN 0 ELSE 1

\* a session over a glossary returned after 1 + 4n calls
C14_Witness ==
    /\ pc = "returned"
    /\ Len(text) = MaxChunks
    /\ terminology_dict # EmptyDict
    /\ Len(calls) = 1 + 4 * MaxChunks
    /\ \A k \in 1..Len(calls) : calls[k].ok

\* ---------------------------------------------------------------------------
\* C16: the chunks list of a session result over n input chunks holds n
\* records in input order: the record at place k (counted from 1 here) has
\* chunk_number k and the k-th input chunk as original_text, and the result of
\* its last step is the text standing at place k of the assembled output.

LastStep(rec) == rec.steps[Len(rec.steps)]

C16_ChunkRecordsInInputOrder ==
    pc = "returned" =>
        LET recs == result[2].chunks
        IN  /\ Len(recs) = Len(text)
            /\ \A k \in 1..Len(recs) :
                   /\ recs[k].chunk_number = k
                   /\ recs[k].original_text = text[k]
                   /\ LastStep(recs[k]).result = translated_chunks[k]
                   /\ SubSeq(result[1], FinalOffset(k) + 1,
                             FinalOffset(k) + Len(LastStep(recs[k]).result))
                        = LastStep(recs[k]).result

\* the records of a returned session over MaxChunks chunks, the last of them
\* numbered MaxChunks and holding the last input chunk
C16_Witness ==
    /\ pc = "returned"
    /\ Len(text) = MaxChunks
    /\ Len(result[2].chunks) = MaxChunks
    /\ result[2].chunks[MaxChunks].chunk_number = MaxChunks
    /\ result[2].chunks[MaxChunks].original_text = SourceChunks[MaxChunks]
    /\ LastStep(result[2].chunks[1]).result # LastStep(result[2].chunks[MaxChunks]).result

\* ---------------------------------------------------------------------------
\* C18: process_translation over a document of an unrecognized file type, or
\* with a glossary file of an unrecognized format, is rejected before any
\* model call: process_file or set_terminology raises, translate is never
\* entered, and no translated output exists.

UnrecognizedUpload ==
    \/ uploaded_file.ext \notin supported_extensions
    \/ /\ uploaded_terminology # NoFile
       /\ uploaded_terminology.ext \notin terminology_extensions

C18_UnsupportedInputRejectedEarly ==
    (pc # "idle" /\ UnrecognizedUpload) =>
        /\ pc = "raised"
        /\ error = "ValueError"
        /\ calls = <<>>
        /\ analysis = <<>>
        /\ result = <<>>
        /\ translated_chunks = <<>>

\* a readable document of MaxChunks chunks uploaded with a .doc glossary
C18_Witness ==
    /\ pc = "raised"
    /\ uploaded_file.ext = ".txt"
    /\ Len(uploaded_file.chunks) = MaxChunks
    /\ uploaded_terminology.ext = "doc"
    /\ error = "ValueError"
    /\ calls = <<>>

\* ---------------------------------------------------------------------------
\* C19: a style label used for Draft routing that matches no profile of the
\* registry.

\* the labels a session can route its Drafts by: the requested type or the
\* detected style of the manager's reply
RoutingLabels ==
    TranslationTypes \cup {r.vals.detected_style : r \in ManagerResponses}

\* those of them that match no key of the registry
UnregisteredLabels == {l \in RoutingLabels : MatchingEntries(l) = {}}

\* the label that routes the Drafts matches no key of the registry
UnregisteredLabel == translation_type \in UnregisteredLabels

InTranslate == pc \in {"manager", "draft", "reflect", "improve", "terminology"}

\* the Revise output of chunk n, as its record holds it
improved_translation_of(n) == translation_details[n].steps[3].result

C20_TerminologyMapNotModified ==
    [][InTranslate => terminology_dict' = terminology_dict]_vars

\* a session over a loaded glossary returned after a Terminology Check call
\* for every chunk, the map still what set_terminology loaded
C20_Witness ==
    /\ pc = "returned"
    /\ Len(text) = MaxChunks
    /\ uploaded_terminology # NoFile
    /\ terminology_dict = load_terminology(EmptyDict, uploaded_terminology)
    /\ terminology_dict # EmptyDict
    /\ \A n \in 1..Len(text) :
           \E k \in CallsOf(StepNames[4], n) :
               /\ calls[k].ok
               /\ calls[k].prompt = format_prompt_for_terminology_check(
                                       improved_translation_of(n), terminology_dict)

\* ---------------------------------------------------------------------------
\* C17: constructing the pipeline while AI_API_KEY is missing fails with an
\* error and leaves no pipeline object: no session is started and no model
\* call is made.  (Checked under SpecConstruction.)

C17_MissingKeyFailsConstruction ==
    /\ (pc # "unconstructed" /\ ~Truthy(api_key)) =>
           /\ pc = "no_pipeline"
           /\ error = "ValueError"
           /\ uploaded_file = NoUpload
           /\ calls = <<>>
           /\ result = <<>>
    /\ (calls # <<>> \/ uploaded_file # NoUpload) => Truthy(api_key)

\* construction was attempted with AI_API_KEY set to the empty string
C17_Witness ==
    /\ pc = "no_pipeline"
    /\ api_key = <<>>
    /\ error = "ValueError"
    /\ calls = <<>>

\* ---------------------------------------------------------------------------
\* C15: a 3-chunk document, an empty glossary, type Legal, a non-empty brief,
\* a manager's response that selects the Legal profile, and a positive token
\* cost reported by every model call: the result's selected_translators is
\* ["Legal Translator"], its chunks list has 3 entries of 4 steps each, and
\* its total_tokens is greater than 0.  (Checked under SpecLegalBrief.)

ReportsPositiveCost(reply) ==
    /\ "total_tokens" \in DOMAIN reply.usage
    /\ reply.usage["total_tokens"] > 0

LegalBriefScenario ==
    /\ pc = "returned"
    /\ Len(text) = 3
    /\ terminology_dict = EmptyDict
    /\ requested_type = Str_Legal
    /\ brief # ""
    /\ ~HoldsNoJsonObject(calls[1].reply.shape)
    /\ \E k \in 1..Len(calls[1].reply.shape) :
          calls[1].reply.shape[k] = "selected_translators"
    /\ calls[1].reply.vals.selected_translators = <<Str_Legal>>
    /\ \A k \in 1..Len(calls) : calls[k].ok /\ ReportsPositiveCost(calls[k].reply)

C15_LegalBriefScenario ==
    LegalBriefScenario =>
        /\ result[2].selected_translators = <<Str_LegalTranslator>>
        /\ Len(result[2].chunks) = 3
        /\ \A n \in 1..3 : Len(result[2].chunks[n].steps) = 4
        /\ result[2].total_tokens > 0

\* the scenario's session returned, its three Drafts made by the Legal profile
C15_Witness ==
    /\ LegalBriefScenario
    /\ Len(result[2].chunks) = 3
    /\ \A n \in 1..3 : \E k \in CallsOf(StepNames[1], n) : calls[k].agent = "legal"

\* ---------------------------------------------------------------------------
\* C21: a chunk's step list is append-only.  Every step of a session leaves
\* the step list of the chunk in work, and of every finished record, a prefix
\* of what it is afterwards (so of its final value): no entry, name or result
\* text, is changed or removed once appended.

IsPrefix(s, t) == Len(s) <= Len(t) /\ SubSeq(t, 1, Len(s)) = s

\* the step list of chunk n after the step: in its finished record, or in the
\* record in work
StepsAfter(n) ==
    IF n <= Len(translation_details') THEN translation_details'[n].steps
    ELSE IF chunk_details'.chunk_number = n THEN chunk_details'.steps
    ELSE <<>>

C21_StepListAppendOnly ==
    [][InChunk =>
         /\ \A n \in 1..Len(translation_details) :
                /\ n <= Len(translation_details')
                /\ IsPrefix(translation_details[n].steps, translation_details'[n].steps)
         /\ chunk_details.chunk_number > Len(translation_details) =>
                IsPrefix(chunk_details.steps, StepsAfter(chunk_details.chunk_number))
      ]_vars

\* the last chunk before its fourth step: three entries appended, holding the
\* three outputs so far, and the records of the chunks before it finished
C21_Witness ==
    /\ pc = "terminology"
    /\ i = MaxChunks
    /\ Len(translation_details) = MaxChunks - 1
    /\ Len(chunk_details.steps) = 3
    /\ chunk_details.steps[1].result = initial_translation
    /\ chunk_details.steps[2].result = reflection
    /\ chunk_details.steps[3].result = improved_translation
    /\ initial_translation # improved_translation

\* ---------------------------------------------------------------------------
\* C22: saving a presentation never compares the number of chunks with the
\* number of slides.  With more finalized chunks than slides, chunk i is
\* written onto slide i for every i below the slide count and the other
\* chunks are dropped, with no error; with fewer chunks than slides, the
\* slides beyond the chunks receive no text.  (Checked under SpecPptx.)

C22_PptxCountsNotCompared ==
    pc = "saved" =>
        LET recs == result[2].chunks
            slides == uploaded_file.slides
        IN  /\ error = ""
            /\ Len(translated_file) = Len(slides)
            /\ \A n \in 1..Len(slides) :
                   translated_file[n] = IF n <= Len(recs) THEN LastStep(recs[n]).result
                                        ELSE <<>>

\* a presentation of fewer slides than finalized chunks was saved
C22_Witness ==
    /\ pc = "saved"
    /\ Len(uploaded_file.slides) >= 1
    /\ Len(result[2].chunks) > Len(uploaded_file.slides)
    /\ translated_file[1] = LastStep(result[2].chunks[1]).result
    /\ error = ""

\* ---------------------------------------------------------------------------
\* C23: the terminology map set by set_terminology stays on the pipeline from
\* session to session: only the load of a glossary file changes it, neither
\* translate nor process_translation clears it, and a later session started
\* without a glossary file makes one Terminology Check call per chunk, with
\* the map of the earlier session.  (Checked under SpecSessions.)

\* a later session without a glossary file returned over a map loaded before
LaterSessionOverEarlierMap ==
    /\ session > 1
    /\ pc = "returned"
    /\ uploaded_terminology = NoFile
    /\ terminology_dict # EmptyDict

C23_TerminologyMapPersists ==
    [][/\ terminology_dict' # terminology_dict =>
            /\ pc = "idle"
            /\ uploaded_terminology' # NoFile
            /\ terminology_dict' = load_terminology(terminology_dict,
                                                    uploaded_terminology')
       /\ LaterSessionOverEarlierMap' =>
            \A n \in 1..Len(text') :
                /\ Cardinality({k \in 1..Len(calls') :
                                   /\ calls'[k].stage = StepNames[4]
                                   /\ calls'[k].chunk = n}) = 1
                /\ \A k \in 1..Len(calls') :
                       (calls'[k].stage = StepNames[4] /\ calls'[k].chunk = n) =>
                           calls'[k].prompt = format_prompt_for_terminology_check(
                               translation_details'[n].steps[3].result,
                               terminology_dict)
      ]_vars

\* the second session, started without a glossary file, returned after a
\* Terminology Check call for every chunk
C23_Witness ==
    /\ LaterSessionOverEarlierMap
    /\ session = 2
    /\ Len(text) = MaxChunks
    /\ Len(calls) = 1 + 4 * MaxChunks
    /\ \A n \in 1..Len(text) : CallsOf(StepNames[4], n) # {}

\* ---------------------------------------------------------------------------
\* C24: loading a CSV, JSON or Excel glossary replaces the whole terminology
\* map; loading a TXT glossary adds its pairs to the map there is and keeps
\* every earlier entry whose source term the file does not redefine.  After
\* two loads the map depends on the formats, not only on the last file.
\* (Checked under SpecSessions.)

SourceTerms(f) == {f.pairs[k][1] : k \in 1..Len(f.pairs)}

\* the step is a process_translation call that loaded its glossary file
LoadsGlossary ==
    /\ pc = "idle"
    /\ pc' # "idle"
    /\ error' # "ValueError"
    /\ uploaded_terminology' # NoFile

C24_ReplaceOrMerge ==
    [][LoadsGlossary =>
         LET f == uploaded_terminology'
             old == terminology_dict
             new == terminology_dict'
         IN  /\ \A k \in 1..Len(f.pairs) : new[f.pairs[k][1]] = f.pairs[k][2]
             /\ f.ext # "txt" => DOMAIN new = SourceTerms(f)
             /\ f.ext = "txt" =>
                   /\ DOMAIN new = DOMAIN old \cup SourceTerms(f)
                   /\ \A term \in DOMAIN old \ SourceTerms(f) : new[term] = old[term]
      ]_vars

\* a TXT glossary was loaded over the map of a JSON glossary: the map holds
\* an entry of the JSON file, the entry the TXT file redefines and the entry it
\* adds, which the TXT file alone would not give
C24_Witness ==
    /\ session = 2
    /\ pc = "manager"
    /\ uploaded_terminology.ext = "txt"
    /\ DOMAIN terminology_dict = {"Acme", "invoice", "clause"}
    /\ terminology_dict["Acme"] = "Acme-FR"
    /\ terminology_dict["invoice"] = "note"
    /\ terminology_dict # load_terminology(EmptyDict, uploaded_terminology)

\* ---------------------------------------------------------------------------
\* C25: a manager's response that parses as a JSON object but lacks one of
\* selected_translators, style_guidelines, quality_requirements gets no
\* default: analyze_brief returns the decision without that field, and
\* translate aborts with an error before the Draft call of any chunk.

\* the fields translate reads that the reply's object does not hold
MissingFields(shape) ==
    {"selected_translators", "style_guidelines", "quality_requirements"}
        \ {shape[k] : k \in 1..Len(shape)}

BothListsGiven ==
    Truthy(analysis["style_guidelines"]) /\ Truthy(analysis["quality_requirements"])

C26_RoutedByLabelAndLists ==
    \A k \in DraftCalls :
        LET label == Lower(translation_type)
        IN  /\ label = Str_literary => calls[k].agent = "literary"
            /\ label = Str_legal => calls[k].agent = "legal"
            /\ (label \notin {Str_literary, Str_legal}
                /\ (label = Str_master_translator \/ BothListsGiven)) =>
                   /\ calls[k].agent = "master"
                   /\ calls[k].prompt.style_guidelines = analysis["style_guidelines"]
                   /\ calls[k].prompt.quality_requirements
                         = analysis["quality_requirements"]
            /\ (label \notin {Str_literary, Str_legal, Str_master_translator}
                /\ ~BothListsGiven) =>
                   /\ calls[k].agent = "pipeline"
                   /\ calls[k].prompt.kind = "default"
            /\ calls[k].agent \in {"literary", "legal", "master", "pipeline"}

\* the label LEGAL with both lists given and a selection that names no legal
\* profile: the Legal specialist made every Draft of a returned session
C26_Witness ==
    /\ pc = "returned"
    /\ translation_type = Str_LEGAL
    /\ BothListsGiven
    /\ \A j \in 1..Len(analysis["selected_translators"]) :
           analysis["selected_translators"][j] # Str_LegalTranslator
    /\ Len(text) = MaxChunks
    /\ \A n \in 1..Len(text) : \E k \in DraftCalls :
           calls[k].chunk = n /\ calls[k].ok /\ calls[k].agent = "legal"

\* ---------------------------------------------------------------------------
\* C27: when the manager's parsed response holds a list of names in
\* selected_translators, the list analyze_brief returns has the same length
\* and order, and each of its elements is one of the nine registered profile
\* names.  (Checked under SpecDecisions.)

RegisteredProfileNames ==
    {available_translators[k][2] : k \in 1..Len(available_translators)}

C27_SelectionMappedInPlace ==
    RepliedProfiles =>
        LET returned == calls[1].reply.vals["selected_translators"]
            resolved == analysis["selected_translators"]
        IN  /\ Len(resolved) = Len(returned)
            /\ \A j \in 1..Len(resolved) : resolved[j] \in RegisteredProfileNames
            \* place j answers name j: a name that is a registry key gets that
            \* key's profile at its own place, and equal names get equal profiles
            /\ \A j \in 1..Len(returned) :
                   /\ \A k \in 1..Len(available_translators) :
                          returned[j] = available_translators[k][1] =>
                              resolved[j] = available_translators[k][2]
                   /\ \A h \in 1..Len(returned) :
                          returned[h] = returned[j] => resolved[h] = resolved[j]

\* six names, five of them registry keys and one unknown, came back as the
\* six profiles in the same order
C27_Witness ==
    /\ RepliedProfiles
    /\ calls[1].reply.vals["selected_translators"]
          = <<Str_Technical, Str_Medical, Str_News, Str_Academic, Str_Marketing,
              Str_Poetry>>
    /\ analysis["selected_translators"]
          = <<Str_TechnicalTranslator, Str_MedicalTranslator, Str_NewsTranslator,
              Str_AcademicTranslator, Str_MarketingTranslator, Str_MasterTranslator>>

\* ---------------------------------------------------------------------------
\* C28: analyze_brief resolves a returned name to the first registry entry,
\* in the order Legal, Literary, Business, Technical, Medical, News,
\* Academic, Marketing, Master Translator, whose lower-cased key is contained
\* in the lower-cased name; a name that is only a fragment of a key ('Leg',
\* 'Master') matches no entry and resolves to Master Translator.
\* (Checked under SpecDecisions.)

RegistryKeys == [k \in 1..Len(available_translators) |-> available_translators[k][1]]

FirstMatchingEntry(name) ==
    CHOOSE k \in MatchingEntries(name) : \A h \in MatchingEntries(name) : k <= h

KeyFragments == {Str_Leg, Str_Master}

C28_FirstRegistryMatchWins ==
    /\ RegistryKeys = <<Str_Legal, Str_Literary, Str_Business, Str_Technical,
                        Str_Medical, Str_News, Str_Academic, Str_Marketing,
                        Str_MasterTranslator>>
    /\ RepliedProfiles =>
          LET returned == calls[1].reply.vals["selected_translators"]
              resolved == analysis["selected_translators"]
          IN  \A j \in 1..Len(returned) :
                 /\ j <= Len(resolved)
                 /\ IF MatchingEntries(returned[j]) = {}
                    THEN resolved[j] = Str_MasterTranslator
                    ELSE resolved[j] =
                           available_translators[FirstMatchingEntry(returned[j])][2]
                 /\ returned[j] \in KeyFragments =>
                        /\ MatchingEntries(returned[j]) = {}
                        /\ resolved[j] = Str_MasterTranslator

\* a fragment went to the Master Translator, and a name holding two keys
\* went to the earlier one
C28_Witness ==
    /\ RepliedProfiles
    /\ calls[1].reply.vals["selected_translators"] = <<Str_Leg, Str_legal_and_literary>>
    /\ Cardinality(MatchingEntries(Str_legal_and_literary)) = 2
    /\ analysis["selected_translators"] = <<Str_MasterTranslator, Str_LegalTranslator>>

\* ---------------------------------------------------------------------------
\* C29: translate sets total_tokens to 0 and starts a new list of chunk
\* records on entry, so for consecutive sessions on the same pipeline the
\* total_tokens and the chunks of each result come from that session alone,
\* and a result an earlier session returned is not changed by a later one.
\* (Checked under SpecSessions.)

\* the token cost that the pipeline's own calls among calls[1..k] reported
RECURSIVE SessionPipelineTokens(_)
SessionPipelineTokens(k) ==
    IF k = 0 THEN 0
    ELSE SessionPipelineTokens(k - 1)
         + (IF calls[k].ok /\ calls[k].agent = "pipeline"
            THEN usage_total_tokens(calls[k].reply) ELSE 0)

ResultOfThisSessionOnly ==
    pc = "returned" =>
        /\ result[2].total_tokens = SessionPipelineTokens(Len(calls))
        /\ Len(result[2].chunks) = Len(text)
        /\ \A k \in 1..Len(text) :
              /\ result[2].chunks[k].chunk_number = k
              /\ result[2].chunks[k].original_text = text[k]

C29_SessionsKeptApart ==
    [][/\ ResultOfThisSessionOnly'
       /\ session' = session => earlier_result' = earlier_result]_vars

\* a second session has returned a one-chunk result of its own while the
\* first session's two-chunk result stands as it was returned
C29_Witness ==
    /\ session = 2
    /\ pc = "returned"
    /\ earlier_result # <<>>
    /\ Len(earlier_result[2].chunks) = 2
    /\ earlier_result[2].total_tokens > 0
    /\ Len(result[2].chunks) = 1
    /\ result[2].total_tokens > 0
    /\ result[2].total_tokens < earlier_result[2].total_tokens

\* ---------------------------------------------------------------------------
\* C30: translate called with an empty list of chunks aborts with an error
\* before the Style Manager's call or any other model call is made, and
\* returns no result.

\* process_translation passed both uploads on and translate got no chunk
TranslateOnEmptyList ==
    /\ pc # "idle"
    /\ validate_file(uploaded_file)
    /\ uploaded_terminology = NoFile \/ terminology_format_supported(uploaded_terminology)
    /\ uploaded_file.chunks = <<>>

C30_EmptyListAborts ==
    TranslateOnEmptyList =>
        /\ calls = <<>>
        /\ result = <<>>
        /\ pc # "returned"

====
